---- MODULE Spec2Model ----
(***************************************************************************)
(* Model of lead-gen-ai/server.py: the Lead validator, the group-chat      *)
(* round, the extraction of the advisors' replies, the assembly of         *)
(* ai_analysis, the append to the sheet and the response.                  *)
(*                                                                         *)
(* A Python str is a sequence of symbols.  A symbol is one character, or   *)
(* a piece of fixed text that the code never looks into (written as one    *)
(* TLA+ string, e.g. "LeadQualificationAgent" or "N/A").                   *)
(***************************************************************************)
EXTENDS Integers, Sequences, FiniteSets, TLC

VARIABLES pc, request, lead, round, messages, results, origin, ai_analysis,
          sheet, appendCalls, response, raised

vars == <<pc, request, lead, round, messages, results, origin, ai_analysis,
          sheet, appendCalls, response, raised>>

---------------------------------------------------------------------------
(* Text *)

T(x) == <<x>>

LBRACE == "{"
RBRACE == "}"
QUOTE == "\""
COLON == ":"
COMMA == ","
SP == " "
NL == "\n"
FF == "\f"

\* the characters str.strip() removes
PyWhitespace == {SP, NL, FF}

\* the characters the JSON decoder skips between tokens
JsonWhitespace == {SP, NL}

\* the characters the strict JSON decoder refuses inside a string
ControlChars == {NL, FF}

RECURSIVE LStrip(_)
LStrip(s) ==
    IF s # <<>> /\ Head(s) \in PyWhitespace THEN LStrip(Tail(s)) ELSE s

RECURSIVE RStrip(_)
RStrip(s) ==
    IF s # <<>> /\ s[Len(s)] \in PyWhitespace
    THEN RStrip(SubSeq(s, 1, Len(s) - 1))
    ELSE s

Strip(s) == RStrip(LStrip(s))

StartsWith(s, c) == s # <<>> /\ s[1] = c

EndsWith(s, c) == s # <<>> /\ s[Len(s)] = c

RECURSIVE Replace(_, _)
\* s.replace(c, "")
Replace(s, c) ==
    IF s = <<>> THEN <<>>
    ELSE IF Head(s) = c THEN Replace(Tail(s), c)
    ELSE <<Head(s)>> \o Replace(Tail(s), c)

\* U+00B2 and U+0663: characters str.isdigit() accepts that are not 0-9
SUP2 == "sup2"
ARABIC3 == "arabic3"

AsciiDigits == {"0", "1", "2", "3", "4", "5", "6", "7", "8", "9"}

PyDigits == AsciiDigits \cup {SUP2, ARABIC3}

\* str.isdigit(): at least one character and every character a digit
IsDigit(s) == s # <<>> /\ \A i \in 1..Len(s) : s[i] \in PyDigits

---------------------------------------------------------------------------
(* Python values: a str, or a dict (pairs in insertion order) *)

JStr(s) == [t |-> "str", s |-> s, d |-> <<>>]

JObj(d) == [t |-> "obj", s |-> <<>>, d |-> d]

Pair(k, v) == [k |-> k, v |-> v]

DictKeys(d) == [i \in 1..Len(d) |-> d[i].k]

DictHas(d, k) == \E i \in 1..Len(d) : d[i].k = k

\* d.get(k, default)
DictGet(d, k, default) ==
    IF DictHas(d, k)
    THEN d[CHOOSE i \in 1..Len(d) : d[i].k = k].v
    ELSE default

\* d[k] = v: a key already there keeps its place
DictSet(d, k, v) ==
    IF DictHas(d, k)
    THEN [i \in 1..Len(d) |-> IF d[i].k = k THEN Pair(k, v) ELSE d[i]]
    ELSE Append(d, Pair(k, v))

\* bool(v)
Truthy(v) == IF v.t = "obj" THEN v.d # <<>> ELSE v.s # <<>>

---------------------------------------------------------------------------
(* json.loads and json.dumps, on the alphabet of the model: objects and    *)
(* strings without escapes                                                 *)

ParseFail == [ok |-> FALSE, val |-> JStr(<<>>), next |-> 0]

ParseOk(v, n) == [ok |-> TRUE, val |-> v, next |-> n]

RECURSIVE SkipWs(_, _)
SkipWs(s, i) ==
    IF i <= Len(s) /\ s[i] \in JsonWhitespace THEN SkipWs(s, i + 1) ELSE i

RECURSIVE StringEnd(_, _)
\* the index of the quote that closes the string, 0 if there is none or a
\* control character comes first
StringEnd(s, i) ==
    IF i > Len(s) THEN 0
    ELSE IF s[i] = QUOTE THEN i
    ELSE IF s[i] \in ControlChars THEN 0
    ELSE StringEnd(s, i + 1)

\* s[i] is the opening quote
ScanString(s, i) ==
    LET e == StringEnd(s, i + 1)
    IN  IF e = 0 THEN ParseFail ELSE ParseOk(SubSeq(s, i + 1, e - 1), e + 1)

RECURSIVE ParseValue(_, _)
RECURSIVE ParseMembers(_, _, _)

\* j is where a key must start
ParseMembers(s, j, acc) ==
    IF j > Len(s) \/ s[j] # QUOTE THEN ParseFail
    ELSE LET k == ScanString(s, j)
         IN  IF ~k.ok THEN ParseFail
             ELSE LET c == SkipWs(s, k.next)
                  IN  IF c > Len(s) \/ s[c] # COLON THEN ParseFail
                      ELSE LET v == ParseValue(s, SkipWs(s, c + 1))
                           IN  IF ~v.ok THEN ParseFail
                               ELSE LET acc2 == DictSet(acc, k.val, v.val)
                                        e == SkipWs(s, v.next)
                                    IN  IF e > Len(s) THEN ParseFail
                                        ELSE IF s[e] = RBRACE
                                             THEN ParseOk(JObj(acc2), e + 1)
                                        ELSE IF s[e] = COMMA
                                             THEN ParseMembers(s, SkipWs(s, e + 1), acc2)
                                        ELSE ParseFail

ParseValue(s, i) ==
    IF i > Len(s) THEN ParseFail
    ELSE IF s[i] = QUOTE
         THEN LET r == ScanString(s, i)
              IN  IF r.ok THEN ParseOk(JStr(r.val), r.next) ELSE ParseFail
    ELSE IF s[i] = LBRACE
         THEN LET j == SkipWs(s, i + 1)
              IN  IF j > Len(s) THEN ParseFail
                  ELSE IF s[j] = RBRACE THEN ParseOk(JObj(<<>>), j + 1)
                  ELSE ParseMembers(s, j, <<>>)
    ELSE ParseFail

\* ok = FALSE stands for json.JSONDecodeError
json_loads(s) ==
    LET v == ParseValue(s, SkipWs(s, 1))
    IN  IF v.ok /\ SkipWs(s, v.next) > Len(s) THEN v ELSE ParseFail

RECURSIVE json_dumps(_)
RECURSIVE DumpMembers(_, _)

DumpMembers(d, i) ==
    IF i > Len(d) THEN <<>>
    ELSE (IF i > 1 THEN <<COMMA, SP>> ELSE <<>>)
         \o <<QUOTE>> \o d[i].k \o <<QUOTE, COLON, SP>> \o json_dumps(d[i].v)
         \o DumpMembers(d, i + 1)

json_dumps(v) ==
    IF v.t = "str" THEN <<QUOTE>> \o v.s \o <<QUOTE>>
    ELSE <<LBRACE>> \o DumpMembers(v.d, 1) \o <<RBRACE>>

---------------------------------------------------------------------------
(* class Lead *)

None == [some |-> FALSE, text |-> <<>>]

Some(t) == [some |-> TRUE, text |-> t]

LeadFields ==
    {"name", "income", "savings", "credit_score", "dob", "lump_sum",
     "monthly_contribution", "goals"}

\* name: str, income: str, savings: str, goals: str
RequiredFields == {"name", "income", "savings", "goals"}

\* check_numeric without the replace(",", "")
check_numeric_raises_keeping_commas(v) == ~IsDigit(v)

\* check_numeric raises ValueError
check_numeric_raises(v) == ~IsDigit(Replace(v, COMMA))

\* check_numeric_optional raises ValueError (pre=True, always=True: it also
\* runs on a field the request leaves out)
check_numeric_optional_raises(f) ==
    IF ~f.some \/ f.text = <<>> THEN FALSE
    ELSE ~IsDigit(Replace(f.text, COMMA))

\* the value check_numeric_optional returns
check_numeric_optional(f) == IF ~f.some \/ f.text = <<>> THEN None ELSE f

\* the fields of a request body that pydantic reports
LeadErrors(raw) ==
    {f \in RequiredFields : ~raw[f].some}
    \cup {f \in {"income", "savings"} : raw[f].some /\ check_numeric_raises(raw[f].text)}
    \cup {f \in {"credit_score", "lump_sum", "monthly_contribution"} :
            check_numeric_optional_raises(raw[f])}

\* the Lead object built from a request body with no error
Lead(raw) ==
    [f \in LeadFields |->
        IF f \in {"credit_score", "lump_sum", "monthly_contribution"}
        THEN check_numeric_optional(raw[f])
        ELSE raw[f]]

\* x if x else 'N/A'
OrNA(f) == IF f.some /\ f.text # <<>> THEN f.text ELSE T("N/A")

---------------------------------------------------------------------------
(* The agents *)

lead_qualification_agent == T("LeadQualificationAgent")
financial_strategy_agent == T("FinancialStrategyAgent")
policy_advisor_agent == T("PolicyAdvisorAgent")
anti_iul_agent == T("AntiIULAgent")
risk_assessment_agent == T("RiskAssessmentAgent")
followup_agent == T("FollowupAgent")

user_proxy == T("User")

\* the fields each agent's system_message tells it to output
OutputFields(agent) ==
    IF agent = lead_qualification_agent THEN <<"priority", "reasoning">>
    ELSE IF agent = financial_strategy_agent THEN <<"budget", "investment", "savings">>
    ELSE IF agent = policy_advisor_agent THEN <<"policy_type", "reasoning">>
    ELSE IF agent = anti_iul_agent THEN <<"critique">>
    ELSE IF agent = risk_assessment_agent THEN <<"risk_tolerance", "reasoning">>
    ELSE <<"subject", "body">>

\* the agents listed in the order of the keys of ai_analysis
GroupChatAgentsInKeyOrder ==
    <<lead_qualification_agent, financial_strategy_agent, policy_advisor_agent,
      anti_iul_agent, risk_assessment_agent, followup_agent>>

\* GroupChat(agents=[...]): the round-robin order
GroupChatAgents ==
    <<lead_qualification_agent, financial_strategy_agent, risk_assessment_agent,
      policy_advisor_agent, anti_iul_agent, followup_agent>>

\* a chat of one message more
max_round_one_more == 7 + 1

\* GroupChat(max_round=7): the number of messages of one chat, the first one
\* included
max_round == 7

---------------------------------------------------------------------------
(* Messages of a group chat *)

Str(t) == [kind |-> "str", text |-> t]

\* a content that is no str (None, a list): it has no strip()
NonText == [kind |-> "nontext", text |-> <<>>]

\* a message without the key "content"
Missing == [kind |-> "missing", text |-> <<>>]

Message(role, name, content) == [role |-> role, name |-> name, content |-> content]

\* the f-string of process_lead_pipeline
InitialMessage(l) ==
    <<"Process the following lead and generate structured responses as follows:", NL,
      "- LeadQualificationAgent: Assess lead priority (high/low) and provide reasoning.", NL,
      "- FinancialStrategyAgent: Provide budgeting, investment, and savings strategies.", NL,
      "- RiskAssessmentAgent: Evaluate risk tolerance, considering lump sum/monthly contributions.", NL,
      "- PolicyAdvisorAgent: Recommend the most suitable life insurance policy.", NL,
      "- AntiIULAgent: Critique any IUL or VUL policies.", NL,
      "- FollowupAgent: Draft a follow-up email.", NL, NL,
      "Lead Details:", NL>>
    \o <<"Name:", SP>> \o l.name.text \o <<NL>>
    \o <<"Income:", SP>> \o l.income.text \o <<NL>>
    \o <<"Savings:", SP>> \o l.savings.text \o <<NL>>
    \o <<"Credit Score:", SP>> \o OrNA(l.credit_score) \o <<NL>>
    \o <<"Date of Birth/Age:", SP>> \o OrNA(l.dob) \o <<NL>>
    \o <<"Lump Sum Contribution:", SP>> \o OrNA(l.lump_sum) \o <<NL>>
    \o <<"Monthly Contribution:", SP>> \o OrNA(l.monthly_contribution) \o <<NL>>
    \o <<"Goals:", SP>> \o l.goals.text \o <<NL, NL>>
    \o <<"TERMINATE">>

---------------------------------------------------------------------------
(* 3. Extract and Process Responses *)

ErrorDict(reason) == JObj(<<Pair(T("error"), JStr(T(reason)))>>)

MalformedJSON == ErrorDict("Malformed JSON from AI")

InvalidJSON == ErrorDict("Invalid JSON from AI")

\* the test without message['name'] != 'User'
IsUserRoleTurn(m) == m.role = T("user")

\* message['role'] == 'user' and message['name'] != 'User'
IsAdvisorTurn(m) == m.role = T("user") /\ m.name # user_proxy

\* message.get('content', '')
ContentOf(m) == IF m.content.kind = "missing" THEN Str(<<>>) ELSE m.content

\* content.strip().startswith("{") and content.strip().endswith("}")
LooksLikeJson(t) == StartsWith(Strip(t), LBRACE) /\ EndsWith(Strip(t), RBRACE)

\* the body of the inner try, for a str content: what results[agent_name]
\* is set to
ParseContent(t) ==
    IF LooksLikeJson(t)
    THEN LET r == json_loads(t)
         IN  IF ~r.ok THEN InvalidJSON
             ELSE IF Truthy(r.val) THEN r.val
             ELSE MalformedJSON
    ELSE MalformedJSON

NoExc == [type |-> "none", at |-> "none", role |-> <<>>, text |-> <<>>]

Exc(type, at, role, text) == [type |-> type, at |-> at, role |-> role, text |-> text]

RECURSIVE ExtractFrom(_, _, _, _)
\* the loop over groupchat.messages from message i on: the results dict, for
\* each key the index of the message that set it, and the exception that
\* ended the loop if one did
ExtractFrom(msgs, i, res, org) ==
    IF i > Len(msgs) THEN [results |-> res, origin |-> org, raised |-> NoExc]
    ELSE IF ~IsAdvisorTurn(msgs[i]) THEN ExtractFrom(msgs, i + 1, res, org)
    ELSE LET c == ContentOf(msgs[i])
         IN  IF c.kind = "nontext"
             THEN [results |-> res, origin |-> org,
                   raised |-> Exc("AttributeError", "extract", msgs[i].name,
                                  T("object has no attribute 'strip'"))]
             ELSE ExtractFrom(msgs, i + 1,
                              DictSet(res, msgs[i].name, ParseContent(c.text)),
                              DictSet(org, msgs[i].name, i))

Extract(msgs) == ExtractFrom(msgs, 1, <<>>, <<>>)

---------------------------------------------------------------------------
(* 4. Combine Results (with Fallbacks) *)

NA == JStr(T("N/A"))

Fallback(keys) == JObj([i \in 1..Len(keys) |-> Pair(T(keys[i]), NA)])

\* ai_analysis built from the roles that have a result, with no fallback
CombineResultsNoFallback(res) ==
    JObj(SelectSeq(
        <<Pair(T("qualification"), DictGet(res, lead_qualification_agent, NA)),
          Pair(T("financial_strategy"), DictGet(res, financial_strategy_agent, NA)),
          Pair(T("policy"), DictGet(res, policy_advisor_agent, NA)),
          Pair(T("anti_iul_critique"), DictGet(res, anti_iul_agent, NA)),
          Pair(T("risk_assessment"), DictGet(res, risk_assessment_agent, NA)),
          Pair(T("followup"), DictGet(res, followup_agent, NA))>>,
        LAMBDA p : p.v # NA))

\* ai_analysis = {...}
CombineResults(res) ==
    JObj(<<
        Pair(T("qualification"),
             DictGet(res, lead_qualification_agent, Fallback(<<"priority", "reasoning">>))),
        Pair(T("financial_strategy"),
             DictGet(res, financial_strategy_agent,
                     Fallback(<<"budget", "investment", "savings">>))),
        Pair(T("policy"),
             DictGet(res, policy_advisor_agent, Fallback(<<"policy_type", "reasoning">>))),
        Pair(T("anti_iul_critique"),
             DictGet(res, anti_iul_agent, Fallback(<<"critique">>))),
        Pair(T("risk_assessment"),
             DictGet(res, risk_assessment_agent,
                     Fallback(<<"risk_tolerance", "reasoning">>))),
        Pair(T("followup"),
             DictGet(res, followup_agent, Fallback(<<"subject", "body">>)))
    >>)

---------------------------------------------------------------------------
(* 5. Store Results, 6. Return Results, and the except clauses *)

\* the list given to sheet.append_row
Row(l, ai) ==
    <<l.name.text, l.income.text, l.savings.text, OrNA(l.credit_score), OrNA(l.dob),
      OrNA(l.lump_sum), OrNA(l.monthly_contribution), l.goals.text, json_dumps(ai)>>

NoResponse == [status |-> "none", message |-> <<>>, ai_analysis |-> <<>>, detail |-> {}]

SuccessResponse(ai) ==
    [status |-> "success", message |-> T("Lead processed successfully!"),
     ai_analysis |-> json_dumps(ai), detail |-> {}]

\* an except clause that answers with str(e)
ErrorResponseWithText(exc) ==
    [status |-> "error", message |-> exc.text, ai_analysis |-> <<>>, detail |-> {}]

\* except HTTPException / except Exception
ErrorResponse(exc) ==
    [status |-> "error",
     message |-> IF exc.type = "HTTPException" THEN exc.text
                 ELSE T("Internal Server Error."),
     ai_analysis |-> <<>>, detail |-> {}]

\* the answer to a request body that is no Lead: the pipeline is not called
ValidationResponse(raw) ==
    [status |-> "422", message |-> <<>>, ai_analysis |-> <<>>, detail |-> LeadErrors(raw)]

---------------------------------------------------------------------------
(* Bounds and inputs *)

\* the longest arbitrary message list the extraction is applied to
MaxTurns == 2

\* the number of requests in flight together
NRuns == 2

Body(name, income, savings, credit_score, dob, lump_sum, monthly_contribution, goals) ==
    [name |-> name, income |-> income, savings |-> savings,
     credit_score |-> credit_score, dob |-> dob, lump_sum |-> lump_sum,
     monthly_contribution |-> monthly_contribution, goals |-> goals]

FiftyThousand == <<"5", "0", COMMA, "0", "0", "0">>

FiftyK == <<"5", "0", "k">>

\* request bodies of the pipeline runs: the optional fields empty or left
\* out, every field given, and an income that is no number
MinimalBody ==
    Body(Some(T("Ann")), Some(FiftyThousand), Some(T("5")), Some(<<>>), None, None,
         Some(<<>>), Some(T("retire")))

FullBody ==
    Body(Some(T("Bob")), Some(T("7")), Some(FiftyThousand), Some(T("7")),
         Some(T("1990-01-01")), Some(T("5")), Some(FiftyThousand), Some(T("house")))

BadBody ==
    Body(Some(T("Cy")), Some(FiftyK), Some(T("5")), None, None, None, None,
         Some(T("retire")))

SampleBodies == {MinimalBody, FullBody, BadBody}

\* values of a numeric field the validator is tried on
NumericTexts == {FiftyThousand, FiftyK, <<>>, <<COMMA>>, <<SUP2>>}

NumericValues == {None} \cup {Some(t) : t \in NumericTexts}

FreeTextValues == {None, Some(<<>>), Some(T("Ann"))}

AllBodies ==
    {Body(n, i, sv, cs, d, ls, mc, g) :
        n \in FreeTextValues, i \in NumericValues, sv \in NumericValues,
        cs \in NumericValues, d \in {None, Some(T("1990-01-01"))},
        ls \in NumericValues, mc \in NumericValues, g \in FreeTextValues}

\* replies of an advisor
PriorityJson ==
    <<LBRACE, QUOTE, "priority", QUOTE, COLON, QUOTE, "high", QUOTE, COMMA,
      QUOTE, "reasoning", QUOTE, COLON, QUOTE, "x", QUOTE, RBRACE>>

NotJson == <<"not", SP, "json">>

OpenBrace == <<LBRACE, "bad">>

BadBraces == <<LBRACE, "bad", RBRACE>>

EmptyObject == <<LBRACE, RBRACE>>

\* a JSON object between two form feeds: strip() removes them, json does not
FormFeedJson == <<FF, LBRACE, QUOTE, "a", QUOTE, COLON, QUOTE, "b", QUOTE, RBRACE, FF>>

PaddedJson == <<SP, LBRACE, QUOTE, "a", QUOTE, COLON, SP, LBRACE, RBRACE, RBRACE, NL>>

Terminate == T("TERMINATE")

\* the contents of an advisor's reply in a pipeline run
ReplyContents ==
    {Str(PriorityJson), Str(NotJson), Str(BadBraces), Str(EmptyObject), Str(Terminate),
     NonText}

\* the contents of a message of an arbitrary list
AnyContents ==
    {Str(PriorityJson), Str(NotJson), Str(OpenBrace), Str(BadBraces), Str(EmptyObject),
     Str(FormFeedJson), Str(PaddedJson), Str(<<SP>>), NonText, Missing}

AnyMessages ==
    {Message(T("user"), name, c) :
        name \in {user_proxy, lead_qualification_agent, followup_agent},
        c \in AnyContents}
    \cup {Message(T("assistant"), name, Str(PriorityJson)) :
            name \in {user_proxy, followup_agent}}

RECURSIVE SeqsUpTo(_, _)
SeqsUpTo(S, n) ==
    IF n = 0 THEN {<<>>}
    ELSE LET shorter == SeqsUpTo(S, n - 1)
         IN  shorter \cup {Append(q, x) : q \in {p \in shorter : Len(p) = n - 1}, x \in S}

AdvisorTurn(name, text) == Message(T("user"), name, Str(text))

\* lists longer than MaxTurns: every role once against the round-robin
\* order, then a role a second time; and a driver turn among six roles
LongMessageLists ==
    LET rev == [i \in 1..6 |-> AdvisorTurn(GroupChatAgents[7 - i], PriorityJson)]
    IN  {rev,
         Append(rev, AdvisorTurn(followup_agent, NotJson)),
         <<Message(T("user"), user_proxy, Str(PriorityJson))>> \o rev}

---------------------------------------------------------------------------
(* State *)

NoLead == [f \in LeadFields |-> None]

\* ai_analysis before it is assigned
NoAnalysis == JObj(<<>>)

\* one GroupChat object for every run
SharedGroupChat(r) == 1

\* the GroupChat object a run appends to and reads: one per call of
\* process_lead_pipeline
GroupChatOf(r) == r

\* no request has arrived; request holds the bodies that will
InitRuns(R, requests) ==
    /\ pc = [r \in R |-> "idle"]
    /\ request \in requests
    /\ lead = [r \in R |-> NoLead]
    /\ round = [r \in R |-> 0]
    /\ messages = [r \in R |-> <<>>]
    /\ results = [r \in R |-> <<>>]
    /\ origin = [r \in R |-> <<>>]
    /\ ai_analysis = [r \in R |-> NoAnalysis]
    /\ sheet = <<>>
    /\ appendCalls = [r \in R |-> 0]
    /\ response = [r \in R |-> NoResponse]
    /\ raised = [r \in R |-> NoExc]

\* POST /process-lead: the body is validated; a Lead starts the pipeline,
\* which runs up to the await of a_initiate_chat
process_lead(r) ==
    /\ pc[r] = "idle"
    /\ IF LeadErrors(request[r]) # {}
       THEN /\ pc' = [pc EXCEPT ![r] = "rejected"]
            /\ response' = [response EXCEPT ![r] = ValidationResponse(request[r])]
            /\ UNCHANGED <<lead, messages>>
       ELSE /\ pc' = [pc EXCEPT ![r] = "chat"]
            /\ lead' = [lead EXCEPT ![r] = Lead(request[r])]
            /\ messages' = [messages EXCEPT ![GroupChatOf(r)] =
                   <<Message(T("user"), user_proxy, Str(InitialMessage(Lead(request[r]))))>>]
            /\ UNCHANGED response
    /\ UNCHANGED <<request, round, results, origin, ai_analysis, sheet, appendCalls, raised>>

\* round_robin, the driver not being one of the agents
Speaker(i) == GroupChatAgents[(i % Len(GroupChatAgents)) + 1]

\* the next agent of the round replies; the chat ends with the message
\* number max_round or with the reply TERMINATE
AgentReply(r, content) ==
    /\ pc[r] = "chat"
    /\ round[r] < max_round - 1
    /\ messages' = [messages EXCEPT ![GroupChatOf(r)] =
           Append(@, Message(T("user"), Speaker(round[r]), content))]
    /\ round' = [round EXCEPT ![r] = @ + 1]
    /\ pc' = [pc EXCEPT ![r] =
           IF round[r] + 1 >= max_round - 1 \/ content = Str(Terminate)
           THEN "collected" ELSE "chat"]
    /\ UNCHANGED <<request, lead, results, origin, ai_analysis, sheet, appendCalls,
                   response, raised>>

\* the model call of the next agent raises: a_initiate_chat raises, and the
\* except clause answers
AgentCallFails(r, type) ==
    /\ pc[r] = "chat"
    /\ round[r] < max_round - 1
    /\ LET exc == Exc(type, "chat", Speaker(round[r]), T("OpenAI API call failed"))
       IN  /\ raised' = [raised EXCEPT ![r] = exc]
           /\ response' = [response EXCEPT ![r] = ErrorResponse(exc)]
    /\ pc' = [pc EXCEPT ![r] = "done"]
    /\ UNCHANGED <<request, lead, round, messages, results, origin, ai_analysis, sheet,
                   appendCalls>>

\* an append that writes the row twice
append_row_twice(rows, row, ok) == IF ok THEN rows \o <<row, row>> ELSE rows

\* sheet.append_row(row): the sheet after the call
append_row(rows, row, ok) == IF ok THEN Append(rows, row) ELSE rows

\* the rest of process_lead_pipeline, which awaits nothing: extraction,
\* ai_analysis, append_row, the response; appendOk is whether append_row
\* returns or raises
ProcessResponses(r, appendOk) ==
    /\ pc[r] = "collected"
    /\ LET ex == Extract(messages[GroupChatOf(r)])
           ai == CombineResults(ex.results)
           appendExc == Exc("APIError", "append", <<>>, T("sheets API error"))
       IN  /\ results' = [results EXCEPT ![r] = ex.results]
           /\ origin' = [origin EXCEPT ![r] = ex.origin]
           /\ IF ex.raised # NoExc
              THEN /\ raised' = [raised EXCEPT ![r] = ex.raised]
                   /\ response' = [response EXCEPT ![r] = ErrorResponse(ex.raised)]
                   /\ UNCHANGED <<ai_analysis, sheet, appendCalls>>
              ELSE /\ ai_analysis' = [ai_analysis EXCEPT ![r] = ai]
                   /\ appendCalls' = [appendCalls EXCEPT ![r] = @ + 1]
                   /\ sheet' = append_row(sheet, Row(lead[r], ai), appendOk)
                   /\ IF appendOk
                      THEN /\ response' = [response EXCEPT ![r] = SuccessResponse(ai)]
                           /\ UNCHANGED raised
                      ELSE /\ raised' = [raised EXCEPT ![r] = appendExc]
                           /\ response' = [response EXCEPT ![r] = ErrorResponse(appendExc)]
    /\ pc' = [pc EXCEPT ![r] = "done"]
    /\ UNCHANGED <<request, lead, round, messages>>

---------------------------------------------------------------------------
(* One request *)

Init == InitRuns({1}, [{1} -> SampleBodies])

Next ==
    \E r \in {1} :
        \/ process_lead(r)
        \/ \E c \in ReplyContents : AgentReply(r, c)
        \/ \E type \in {"TimeoutError", "APIError"} : AgentCallFails(r, type)
        \/ \E ok \in BOOLEAN : ProcessResponses(r, ok)

Spec == Init /\ [][Next]_vars

---------------------------------------------------------------------------
(* The validator alone: every request body of AllBodies is submitted *)

InitValidator == InitRuns({1}, [{1} -> AllBodies])

NextValidator == process_lead(1)

SpecValidator == InitValidator /\ [][NextValidator]_vars

---------------------------------------------------------------------------
(* Extraction and assembly alone: the chat of a valid lead has ended with  *)
(* an arbitrary message list after the driver's message                    *)

CollectedLists == SeqsUpTo(AnyMessages, MaxTurns) \cup LongMessageLists

InitExtract ==
    /\ pc = [r \in {1} |-> "collected"]
    /\ request = [r \in {1} |-> MinimalBody]
    /\ lead = [r \in {1} |-> Lead(MinimalBody)]
    /\ round = [r \in {1} |-> 0]
    /\ messages \in
           {[r \in {1} |->
                <<Message(T("user"), user_proxy, Str(InitialMessage(Lead(MinimalBody))))>> \o l] :
            l \in CollectedLists}
    /\ results = [r \in {1} |-> <<>>]
    /\ origin = [r \in {1} |-> <<>>]
    /\ ai_analysis = [r \in {1} |-> NoAnalysis]
    /\ sheet = <<>>
    /\ appendCalls = [r \in {1} |-> 0]
    /\ response = [r \in {1} |-> NoResponse]
    /\ raised = [r \in {1} |-> NoExc]

NextExtract == \E ok \in BOOLEAN : ProcessResponses(1, ok)

SpecExtract == InitExtract /\ [][NextExtract]_vars

---------------------------------------------------------------------------
(* Several requests in flight: every await of a run is a point where       *)
(* another run may take a step                                             *)

\* the lead of run r: each run has a name of its own
ConcurrentBody(r) ==
    Body(Some(<<"Client", ToString(r)>>), Some(FiftyThousand), Some(T("5")), None, None,
         None, None, Some(T("retire")))

\* run r submits its lead, or a body that is rejected
ConcurrentRequests ==
    {q \in [1..NRuns -> {ConcurrentBody(r) : r \in 1..NRuns} \cup {BadBody}] :
        \A r \in 1..NRuns : q[r] \in {ConcurrentBody(r), BadBody}}

\* the name in the "Name: ..." line of the message that opens a transcript
LeadNameIn(msgs) ==
    LET t == msgs[1].content.text
        i == CHOOSE i \in 1..Len(t) : t[i] = "Name:"
        j == CHOOSE j \in (i + 2)..Len(t) :
                 t[j] = NL /\ \A k \in (i + 2)..(j - 1) : t[k] # NL
    IN  SubSeq(t, i + 2, j - 1)

ReplyAbout(name) ==
    <<LBRACE, QUOTE, "reasoning", QUOTE, COLON, QUOTE>> \o name \o <<QUOTE, RBRACE>>

\* the replies of an agent that is given the transcript msgs: advice that
\* names the lead of the transcript, or TERMINATE
RepliesTo(msgs) == {Str(ReplyAbout(LeadNameIn(msgs))), Str(Terminate)}

InitConcurrent == InitRuns(1..NRuns, ConcurrentRequests)

NextConcurrent ==
    \E r \in 1..NRuns :
        \/ process_lead(r)
        \/ /\ pc[r] = "chat"
           /\ \E c \in RepliesTo(messages[GroupChatOf(r)]) : AgentReply(r, c)
        \/ AgentCallFails(r, "TimeoutError")
        \/ \E ok \in BOOLEAN : ProcessResponses(r, ok)

SpecConcurrent == InitConcurrent /\ [][NextConcurrent]_vars

---------------------------------------------------------------------------
(* Properties *)

Runs == DOMAIN pc

\* the message list of the GroupChat that run r made
Chat(r) == messages[r]

Assembled(r) == ai_analysis[r] # NoAnalysis

Roster ==
    {lead_qualification_agent, financial_strategy_agent, policy_advisor_agent,
     anti_iul_agent, risk_assessment_agent, followup_agent}

AnalysisKeys ==
    {T("qualification"), T("financial_strategy"), T("policy"), T("anti_iul_critique"),
     T("risk_assessment"), T("followup")}

\* the role whose advice a key of ai_analysis holds
RoleOfKey(k) ==
    IF k = T("qualification") THEN lead_qualification_agent
    ELSE IF k = T("financial_strategy") THEN financial_strategy_agent
    ELSE IF k = T("policy") THEN policy_advisor_agent
    ELSE IF k = T("anti_iul_critique") THEN anti_iul_agent
    ELSE IF k = T("risk_assessment") THEN risk_assessment_agent
    ELSE followup_agent

\* the role's declared output fields, each "N/A"
AllNA(agent) ==
    JObj([i \in 1..Len(OutputFields(agent)) |->
             Pair(T(OutputFields(agent)[i]), JStr(T("N/A")))])

HasTurn(r, agent) == \E i \in 1..Len(Chat(r)) : Chat(r)[i].name = agent

IsPrefix(a, b) == Len(a) <= Len(b) /\ SubSeq(b, 1, Len(a)) = a

\* the names of the authors of the messages after the first
TurnNames(r) == [i \in 1..(Len(Chat(r)) - 1) |-> Chat(r)[i + 1].name]

KeyRoles(r) == [i \in 1..Len(ai_analysis[r].d) |-> RoleOfKey(ai_analysis[r].d[i].k)]

RowsOf(r) == {i \in 1..Len(sheet) : sheet[i] = Row(lead[r], ai_analysis[r])}

\* C1: whenever ai_analysis is assembled it has exactly the six role keys,
\* whatever the message list, and the key of a role that has no turn in the
\* list holds that role's all-"N/A" placeholder.
C1_SixRoleKeys ==
    \A r \in Runs :
        Assembled(r) =>
            LET d == ai_analysis[r].d
            IN  /\ Len(d) = 6
                /\ {d[i].k : i \in 1..Len(d)} = AnalysisKeys
                /\ \A i \in 1..Len(d) :
                       ~HasTurn(r, RoleOfKey(d[i].k)) => d[i].v = AllNA(RoleOfKey(d[i].k))

\* C1 witness: assembly after a list with no advisor turn at all: six
\* placeholders.
C1_ZeroAdvisorTurns ==
    \E r \in Runs :
        /\ Assembled(r)
        /\ \A a \in Roster : ~HasTurn(r, a)
        /\ \A i \in 1..Len(ai_analysis[r].d) :
               ai_analysis[r].d[i].v = AllNA(RoleOfKey(ai_analysis[r].d[i].k))

\* the outcome C4 states for an advisor turn of text t
ClaimedOutcome(t) ==
    IF ~(StartsWith(Strip(t), LBRACE) /\ EndsWith(Strip(t), RBRACE)) THEN MalformedJSON
    ELSE IF ~json_loads(t).ok THEN InvalidJSON
    ELSE json_loads(t).val

\* C4: what the extractor records for a role is decided by the text of the
\* role's turn: Malformed if the trimmed text is not within braces, Invalid if
\* it is and does not decode, and otherwise the decoded mapping, "{}" included.
C4_ThreeOutcomes ==
    \A r \in Runs :
        \A i \in 1..Len(results[r]) :
            LET m == Chat(r)[DictGet(origin[r], results[r][i].k, 0)]
            IN  results[r][i].v = ClaimedOutcome(ContentOf(m).text)

WithoutDriver(msgs) == SelectSeq(msgs, LAMBDA m : m.name # user_proxy)

\* C6: no entry of results or of ai_analysis comes from a turn of the driver:
\* the driver is no key of results, every entry was set by a turn of the
\* role it is filed under, and results and ai_analysis are what they would be
\* with the driver's turns taken out of the list.
C6_DriverTurnsNeverExtracted ==
    \A r \in Runs :
        /\ ~DictHas(results[r], user_proxy)
        /\ \A i \in 1..Len(results[r]) :
               LET j == DictGet(origin[r], results[r][i].k, 0)
               IN  /\ j \in 1..Len(Chat(r))
                   /\ Chat(r)[j].name = results[r][i].k
                   /\ Chat(r)[j].name # user_proxy
        /\ pc[r] = "done" /\ raised[r].at # "chat" =>
               /\ raised[r].at # "extract" =>
                      results[r] = Extract(WithoutDriver(Chat(r))).results
               /\ Assembled(r) =>
                      ai_analysis[r] = CombineResults(Extract(WithoutDriver(Chat(r))).results)

\* C6 witness: assembly after a list in which the driver has a second turn
\* whose content is a JSON object.
C6_DriverSentJson ==
    \E r \in Runs :
        /\ Assembled(r)
        /\ \E i \in 2..Len(Chat(r)) :
               Chat(r)[i] = Message(T("user"), user_proxy, Str(PriorityJson))

\* the state part of C2
AppendCallsInv ==
    \A r \in Runs :
        /\ appendCalls[r] <= 1
        /\ pc[r] = "rejected" => appendCalls[r] = 0 /\ RowsOf(r) = {}
        /\ Assembled(r) <=> appendCalls[r] = 1
        /\ response[r].status = "success" => Cardinality(RowsOf(r)) = 1
        /\ Len(sheet) <= Cardinality({q \in Runs : appendCalls[q] = 1})

\* C2: append_row is called for a request not at all if the body is
\* rejected and exactly once if the run assembles ai_analysis, sentinels and
\* placeholders in it or not; a run that succeeds has one row in the sheet;
\* and a step only ever adds one row at the end of the sheet.
C2_AppendOncePerRun ==
    /\ []AppendCallsInv
    /\ [][IsPrefix(sheet, sheet') /\ Len(sheet') <= Len(sheet) + 1]_vars

\* C2 witness: a run that succeeded with one row in the sheet, one role's
\* entry a parse-error sentinel and another's a placeholder.
C2_AppendedWithDegradedRoles ==
    \E r \in Runs :
        /\ response[r].status = "success"
        /\ appendCalls[r] = 1
        /\ Len(sheet) = 1
        /\ \E i, j \in 1..Len(ai_analysis[r].d) :
               /\ ai_analysis[r].d[i].v \in {MalformedJSON, InvalidJSON}
               /\ ai_analysis[r].d[j].v = AllNA(RoleOfKey(ai_analysis[r].d[j].k))
               /\ ~HasTurn(r, RoleOfKey(ai_analysis[r].d[j].k))

\* C3: when the model call of a role failed during the chat, the run still
\* assembles ai_analysis, calls append_row and answers "success", with that
\* role's placeholder in ai_analysis.
C3_FailedCallNotEscalated ==
    \A r \in Runs :
        pc[r] = "done" /\ raised[r].at = "chat" =>
            /\ response[r].status = "success"
            /\ appendCalls[r] = 1
            /\ Assembled(r)
            /\ \A i \in 1..Len(ai_analysis[r].d) :
                   RoleOfKey(ai_analysis[r].d[i].k) = raised[r].role =>
                       ai_analysis[r].d[i].v = AllNA(raised[r].role)

\* C7: every fault in the pipeline ends the run with the response
\* {"status": "error", "message": "Internal Server Error."} and nothing else
\* in it; a run that is over has answered.
C7_GenericError ==
    \A r \in Runs :
        /\ raised[r] # NoExc =>
               /\ pc[r] = "done"
               /\ response[r] = [status |-> "error",
                                 message |-> T("Internal Server Error."),
                                 ai_analysis |-> <<>>, detail |-> {}]
        /\ pc[r] = "done" => response[r].status \in {"success", "error"}

\* C7 witness: append_row raised after ai_analysis was assembled.
C7_AppendRaised ==
    \E r \in Runs : Assembled(r) /\ raised[r].at = "append" /\ response[r].status = "error"

\* C9: the chat of one lead is the driver's one message followed by at most
\* six advisor turns, at most one per role, taken in the round-robin order
\* one after the other; with the seventh message the chat is over.
C9_OnePass ==
    \A r \in Runs :
        LET c == Chat(r)
        IN  /\ Len(c) <= 7
            /\ c # <<>> => c[1].name = user_proxy
            /\ \A i \in 2..Len(c) :
                   /\ c[i].name \in Roster
                   /\ c[i].name = Speaker(i - 2)
                   /\ \A j \in 2..Len(c) : i # j => c[i].name # c[j].name
            /\ Len(c) = 7 => pc[r] # "chat"
            /\ pc[r] = "chat" => Len(c) = round[r] + 1

\* C9 witness: a chat that ended with all six advisor turns.
C9_FullPass == \E r \in Runs : pc[r] = "collected" /\ Len(Chat(r)) = 7

\* the order C10 names
ClaimedRosterOrder ==
    <<lead_qualification_agent, financial_strategy_agent, policy_advisor_agent,
      anti_iul_agent, risk_assessment_agent, followup_agent>>

\* C10 as stated: the keys of ai_analysis and the turns of the chat follow
\* one and the same order of the roles.
C10_OneOrder ==
    \A r \in Runs :
        Assembled(r) =>
            /\ KeyRoles(r) = ClaimedRosterOrder
            /\ IsPrefix(TurnNames(r), ClaimedRosterOrder)

\* C10 amended: the keys of ai_analysis are in the order LeadQualification,
\* FinancialStrategy, PolicyAdvisor, AntiIUL, RiskAssessment, Followup; the
\* turns are taken in the order LeadQualification, FinancialStrategy,
\* RiskAssessment, PolicyAdvisor, AntiIUL, Followup.
C10_TwoOrders ==
    \A r \in Runs :
        /\ Assembled(r) => KeyRoles(r) = ClaimedRosterOrder
        /\ IsPrefix(TurnNames(r),
                    <<lead_qualification_agent, financial_strategy_agent,
                      risk_assessment_agent, policy_advisor_agent, anti_iul_agent,
                      followup_agent>>)

\* C10 witness: ai_analysis assembled after all six roles had their turn.
C10_SixTurnsAssembled == \E r \in Runs : Assembled(r) /\ Len(TurnNames(r)) = 6

\* ^[0-9,]+$
MatchesNumericPattern(t) ==
    t # <<>> /\ \A i \in 1..Len(t) : t[i] \in AsciiDigits \cup {COMMA}

\* the body passed validation: the pipeline was started
Accepted(r) == pc[r] # "idle" /\ pc[r] # "rejected"

Validated(r) == pc[r] # "idle"

\* C5 as stated: a body is accepted iff name and goals are present and not
\* empty, income and savings are present and match ^[0-9,]+$, and each of
\* credit_score, lump_sum, monthly_contribution is absent, empty or matches.
C5_AcceptsIffPattern ==
    \A r \in Runs :
        Validated(r) =>
            (Accepted(r) <=>
                /\ \A f \in {"name", "goals"} : request[r][f].some /\ request[r][f].text # <<>>
                /\ \A f \in {"income", "savings"} :
                       request[r][f].some /\ MatchesNumericPattern(request[r][f].text)
                /\ \A f \in {"credit_score", "lump_sum", "monthly_contribution"} :
                       \/ ~request[r][f].some
                       \/ request[r][f].text = <<>>
                       \/ MatchesNumericPattern(request[r][f].text))

\* commas and digits (any character str.isdigit() accepts) only, and at
\* least one digit
DigitsAndCommas(t) ==
    /\ \A i \in 1..Len(t) : t[i] \in PyDigits \cup {COMMA}
    /\ \E i \in 1..Len(t) : t[i] \in PyDigits

\* C5 amended: a body is accepted iff name and goals are present (empty or
\* not), income and savings are present and are digits and commas with at
\* least one digit, and each of credit_score, lump_sum, monthly_contribution
\* is absent, empty or such a text; an accepted credit_score, lump_sum or
\* monthly_contribution that was empty is None in the Lead.
C5_AcceptsIffDigits ==
    \A r \in Runs :
        Validated(r) =>
            /\ Accepted(r) <=>
                   /\ \A f \in {"name", "goals"} : request[r][f].some
                   /\ \A f \in {"income", "savings"} :
                          request[r][f].some /\ DigitsAndCommas(request[r][f].text)
                   /\ \A f \in {"credit_score", "lump_sum", "monthly_contribution"} :
                          \/ ~request[r][f].some
                          \/ request[r][f].text = <<>>
                          \/ DigitsAndCommas(request[r][f].text)
            /\ Accepted(r) =>
                   \A f \in {"credit_score", "lump_sum", "monthly_contribution"} :
                       lead[r][f] = IF request[r][f].text = <<>> THEN None ELSE request[r][f]

\* C5 witness: income "50,000" and an empty credit_score accepted, the
\* credit_score absent from the Lead.
C5_AcceptedWithCommas ==
    \E r \in Runs :
        /\ Accepted(r)
        /\ request[r].income = Some(FiftyThousand)
        /\ request[r].credit_score = Some(<<>>)
        /\ lead[r].credit_score = None

\* the turns that run r alone can collect for its lead: the driver's message
\* for that lead, then replies to the transcript so far, in round-robin order
SoloTranscript(r) ==
    LET c == Chat(r)
    IN  /\ c # <<>>
        /\ c[1] = Message(T("user"), user_proxy, Str(InitialMessage(lead[r])))
        /\ \A i \in 2..Len(c) :
               /\ c[i].role = T("user")
               /\ c[i].name = Speaker(i - 2)
               /\ c[i].content \in RepliesTo(SubSeq(c, 1, i - 1))

====
